---- MODULE Spec2Model ----
(***************************************************************************)
(* Model of clipboard-stream: the Windows content classifier               *)
(* (WinObserver::get_clipboard_content), the observer loops, the Driver    *)
(* teardown and the broadcast registry (BodySenders).                      *)
(*                                                                         *)
(* Option<T> is modelled as a set: {} is None and {x} is Some(x).          *)
(***************************************************************************)
EXTENDS Integers, Sequences, FiniteSets, TLC

(***************************************************************************)
(* Bounds of the model.                                                    *)
(***************************************************************************)
\* largest number of formats the clipboard exposes at once
MaxPresent == 2
\* largest number of entries of a file list
MaxFiles == 2
\* number of StreamIds
MaxStreams == 2
\* number of streams opened while the observer loop is followed step by step
LoopStreams == 1
\* capacity of a subscriber's channel
Capacity == 1
\* the largest buffer_capacity of the streams of the registry on its own
MaxCapacity == 2
\* largest number of change notifications the observer has yet to see
MaxPending == 1

(***************************************************************************)
(* The clipboard formats the classifier asks for.                          *)
(***************************************************************************)
\* the names the caller registers, in the order of the vector given to new
custom_list == <<"A", "B">>

CustomNames == {custom_list[i] : i \in 1..Len(custom_list)}

ImageFormatIds == {"PNG", "DIBV5", "DIB"}

TextFormatIds == {"HTML", "RTF", "TEXT"}

Formats == CustomNames \cup ImageFormatIds \cup {"FILES"} \cup TextFormatIds

\* the files a file list can name
Paths == {"photo.png", "pic.jpg", "notes.txt"}

\* Path::extension of each of them
Extension(path) ==
    CASE path = "photo.png" -> "png"
      [] path = "pic.jpg" -> "jpg"
      [] OTHER -> "txt"

\* the encoding of the bytes each file holds
FileEncoding(path) ==
    CASE path = "photo.png" -> "png"
      [] path = "pic.jpg" -> "jpeg"
      [] OTHER -> "text"

IMAGE_FORMATS == {"png", "jpg", "jpeg", "gif", "bmp", "webp", "svg", "ico"}

file_is_image(path) == Extension(path) \in IMAGE_FORMATS

VARIABLES
    cfg,        \* the WinObserver's fields, as WinObserver::new leaves them
    clip,       \* the clipboard and the disk, as the provider exposes them
    result,     \* the last ClipboardResult produced: <<>> before the first one
    pc,         \* where the observer thread is in observe
    stop,       \* the stop flag shared by the Driver and the observer
    driver,     \* the Driver: "alive", "joining" (in drop) or "dropped"
    monitor,    \* the change monitor: the changes the observer has yet to see
                \* (on macOS the change count less last_count), and whether
                \* it works
    senders,    \* BodySenders.senders: the registered StreamIds
    chan,       \* the channel of each StreamId: its queue and its receiver
    lock,       \* who holds the mutex of BodySenders.senders
    remaining,  \* send_all: the senders the loop has yet to visit
    mac,        \* OSXObserver::observe: the bodies of get_bodies yet to send
    log         \* history of the current iteration of the loop: whether it
                \* detected a change, its calls of send_all (2 for two or
                \* more), and whether its classification opened the clipboard

vars == <<cfg, clip, result, pc, stop, driver, monitor, senders, chan, lock,
          remaining, mac, log>>

\* the variables of the observer, the Driver and the registry
loopVars == <<pc, stop, driver, monitor, senders, chan, lock, remaining, mac, log>>

(***************************************************************************)
(* Option helpers.                                                         *)
(***************************************************************************)
None == {}

Some(x) == {x}

\* the value of a Some
Unwrap(opt) == CHOOSE x \in opt : TRUE

(***************************************************************************)
(* The provider: what clipboard_win and the file system answer.            *)
(*   clip.fmt[f].size      advertised size, 0 when the format is absent    *)
(*   clip.fmt[f].readable  whether a read of the format succeeds           *)
(*   clip.convertible      the bitmap formats the image codec can decode   *)
(*   clip.files            the entries of the file list format             *)
(*   clip.disk[p]          length and state of file p                      *)
(***************************************************************************)
\* clipboard_win::size: Option<NonZeroUsize>
clipboard_size(c, format_id) ==
    IF c.fmt[format_id].size > 0 THEN Some(c.fmt[format_id].size) ELSE None

\* the encoding of the raw bytes a format holds
RawEncoding(format_id) ==
    CASE format_id = "PNG" -> "png"
      [] format_id \in {"DIBV5", "DIB"} -> "dib"
      [] format_id \in TextFormatIds -> "text"
      [] OTHER -> "raw"

\* clipboard_win::get(RawData(format_id)).ok(), and the text getters
clipboard_get(c, format_id) ==
    IF c.fmt[format_id].size > 0 /\ c.fmt[format_id].readable
    THEN Some([src |-> format_id, len |-> c.fmt[format_id].size,
               enc |-> RawEncoding(format_id)])
    ELSE None

\* a filter that lets every size through
size_filter_off(max_size, size) == TRUE

\* the closure of the size filter: max_size.is_none_or(|max| max > size.get())
size_filter(max_size, size) == \A max \in max_size : max > size

extract_clipboard_format(c, format_id, max_size) ==
    IF \E size \in clipboard_size(c, format_id) : size_filter(max_size, size)
    THEN clipboard_get(c, format_id)
    ELSE None

convert_dib_to_png(c, dib_bytes) ==
    IF dib_bytes.src \in c.convertible
    THEN Some([src |-> dib_bytes.src, len |-> dib_bytes.len, enc |-> "png"])
    ELSE None

\* and_then over an Option
AndThenConvert(c, opt) == UNION {convert_dib_to_png(c, b) : b \in opt}

\* an extraction that reads the images under the general ceiling
extract_image_bytes_general(o, c) ==
    LET png == IF o.png_format
               THEN extract_clipboard_format(c, "PNG", o.max_bytes)
               ELSE None
        dibv5 == AndThenConvert(c, extract_clipboard_format(c, "DIBV5", o.max_bytes))
        dib == AndThenConvert(c, extract_clipboard_format(c, "DIB", o.max_bytes))
    IN  IF png # None THEN png
        ELSE IF dibv5 # None THEN dibv5
        ELSE IF dib # None THEN dib
        ELSE None

extract_image_bytes(o, c) ==
    LET png == IF o.png_format
               THEN extract_clipboard_format(c, "PNG", o.max_image_bytes)
               ELSE None
        dibv5 == AndThenConvert(c, extract_clipboard_format(c, "DIBV5", o.max_image_bytes))
        dib == AndThenConvert(c, extract_clipboard_format(c, "DIB", o.max_image_bytes))
    IN  IF png # None THEN png
        ELSE IF dibv5 # None THEN dibv5
        ELSE IF dib # None THEN dib
        ELSE None

extract_files_list(c, max_size) ==
    IF /\ \E size \in clipboard_size(c, "FILES") : size_filter(max_size, size)
       /\ c.fmt["FILES"].readable
    THEN Some(c.files)
    ELSE None

\* path.metadata().is_ok_and(|metadata| max as u64 > metadata.len())
metadata_within(c, path, max) ==
    c.disk[path].state # "missing" /\ max > c.disk[path].len

\* std::fs::read(path)
fs_read(c, path) ==
    IF c.disk[path].state = "ok"
    THEN Some([src |-> path, len |-> c.disk[path].len, enc |-> FileEncoding(path)])
    ELSE None

(***************************************************************************)
(* Body and ClipboardResult.                                               *)
(***************************************************************************)
Ok(body) == [ok |-> TRUE, body |-> body]

Err(e) == [ok |-> FALSE, err |-> e]

BodyCustom(name, data) == [kind |-> "Custom", name |-> name, data |-> data]

BodyImage(bytes, path) == [kind |-> "Image", bytes |-> bytes, path |-> path]

BodyFileList(paths) == [kind |-> "FileList", paths |-> paths]

BodyText(kind, text) == [kind |-> kind, text |-> text]

(***************************************************************************)
(* WinObserver::new: the fields the classifier reads.                      *)
(*   registered   the names whose register_format succeeded                *)
(*   iteration    the order in which the HashMap of custom formats is      *)
(*                iterated: some order of its keys, fixed by the hasher    *)
(***************************************************************************)
WinObserverNew(registered, iteration, max_image_bytes, max_bytes) ==
    [custom_formats |-> iteration,
     html_format |-> "HTML" \in registered,
     png_format |-> "PNG" \in registered,
     rtf_format |-> "RTF" \in registered,
     max_image_bytes |-> IF max_image_bytes = None /\ max_bytes # None
                         THEN max_bytes
                         ELSE max_image_bytes,
     max_bytes |-> max_bytes]

\* the keys of the HashMap: the names of the list that could be registered
custom_formats_map(registered) ==
    {custom_list[i] : i \in {j \in 1..Len(custom_list) : custom_list[j] \in registered}}

\* the orders in which a HashMap with these keys can be iterated
IterationOrders(keys) ==
    {s \in UNION {[1..n -> keys] : n \in {Cardinality(keys)}} :
        \A i, j \in DOMAIN s : i # j => s[i] # s[j]}

(***************************************************************************)
(* WinObserver::get_clipboard_content, branch by branch.                   *)
(***************************************************************************)
\* the loop over custom_formats: the first entry, in iteration order, that
\* can be extracted
custom_branch(o, c) ==
    LET hits == {i \in 1..Len(o.custom_formats) :
                    extract_clipboard_format(c, o.custom_formats[i], o.max_bytes) # None}
        first == CHOOSE i \in hits : \A j \in hits : i <= j
    IN  IF hits = {} THEN None
        ELSE Some(BodyCustom(o.custom_formats[first],
                Unwrap(extract_clipboard_format(c, o.custom_formats[first], o.max_bytes))))

\* an image payload was extracted: the path of a file list of one entry
image_branch(o, c, image_bytes) ==
    LET files_list == extract_files_list(c, o.max_bytes)
        image_path == IF files_list # None /\ Len(Unwrap(files_list)) = 1
                      THEN Some(Unwrap(files_list)[1])
                      ELSE None
    IN  BodyImage(image_bytes, image_path)

\* no image payload, a file list: a single image file is read from disk
files_branch(o, c, files_list) ==
    IF /\ Len(files_list) = 1
       /\ file_is_image(files_list[1])
       /\ \A max \in o.max_bytes : metadata_within(c, files_list[1], max)
       /\ fs_read(c, files_list[1]) # None
    THEN BodyImage(Unwrap(fs_read(c, files_list[1])), Some(files_list[1]))
    ELSE BodyFileList(files_list)

\* the text fallback: HTML, then rich text, then Unicode text
text_branch(o, c) ==
    IF o.html_format /\ clipboard_get(c, "HTML") # None
    THEN Ok(BodyText("Html", Unwrap(clipboard_get(c, "HTML"))))
    ELSE IF o.rtf_format /\ clipboard_get(c, "RTF") # None
    THEN Ok(BodyText("RichText", Unwrap(clipboard_get(c, "RTF"))))
    ELSE IF clipboard_get(c, "TEXT") # None
    THEN Ok(BodyText("PlainText", Unwrap(clipboard_get(c, "TEXT"))))
    ELSE Err("UnknownDataType")

\* opened: whether Clipboard::new_attempts(10) got the clipboard
get_clipboard_content(o, c, opened) ==
    IF ~opened THEN Err("ReadError")
    ELSE IF custom_branch(o, c) # None THEN Ok(Unwrap(custom_branch(o, c)))
    ELSE IF extract_image_bytes(o, c) # None
    THEN Ok(image_branch(o, c, Unwrap(extract_image_bytes(o, c))))
    ELSE IF extract_files_list(c, o.max_bytes) # None
    THEN Ok(files_branch(o, c, Unwrap(extract_files_list(c, o.max_bytes))))
    ELSE text_branch(o, c)

(***************************************************************************)
(* The inputs of the classifier: configurations and clipboard snapshots.   *)
(***************************************************************************)
\* the advertised sizes of a format and the lengths of a file: below, at and
\* above the ceilings of CeilingChoices
Sizes == {1, 2, 3}

\* <<max_image_bytes, max_bytes>> as given to WinObserver::new: both unset,
\* only max_bytes set, max_image_bytes below it and above it, only
\* max_image_bytes set
CeilingChoices ==
    {<<None, None>>, <<None, Some(2)>>, <<Some(1), Some(2)>>, <<Some(3), Some(2)>>,
     <<Some(2), None>>}

\* the names WinObserver::new registers
RegisteredNames == CustomNames \cup {"PNG", "HTML", "RTF"}

\* the sets of names whose registration succeeds: all of them, or all but one
RegisteredChoices ==
    {RegisteredNames} \cup {RegisteredNames \ {f} : f \in {"B", "PNG", "HTML"}}

Configs ==
    UNION {{WinObserverNew(registered, iteration, ceilings[1], ceilings[2]) :
                iteration \in IterationOrders(custom_formats_map(registered))} :
           registered \in RegisteredChoices, ceilings \in CeilingChoices}

Absent == [size |-> 0, readable |-> FALSE]

\* what a snapshot can hold for a format it exposes: a text format is read
\* without a size query, so one that cannot be read is one that is absent
FormatChoices(f) ==
    IF f \in TextFormatIds
    THEN {[size |-> 1, readable |-> TRUE], [size |-> 3, readable |-> TRUE]}
    ELSE {[size |-> n, readable |-> TRUE] : n \in Sizes}
            \cup {[size |-> 1, readable |-> FALSE]}

\* the formats of a snapshot that exposes exactly the formats of present
FormatStates(present) ==
    {[f \in Formats |-> IF f \in present THEN st[f] ELSE Absent] :
        st \in {t \in [present -> UNION {FormatChoices(f) : f \in present}] :
                    \A f \in present : t[f] \in FormatChoices(f)}}

\* the entries of a file list: distinct paths, at most MaxFiles of them
FileLists ==
    {s \in UNION {[1..n -> Paths] : n \in 0..MaxFiles} :
        \A i, j \in DOMAIN s : i # j => s[i] # s[j]}

\* a file on disk
FileStates ==
    {[len |-> n, state |-> "ok"] : n \in Sizes}
        \cup {[len |-> 1, state |-> "unreadable"], [len |-> 0, state |-> "missing"]}

DefaultFile == [len |-> 1, state |-> "ok"]

\* the disk: the state of photo.png varies when it is the only entry of the
\* list, the other files are short and readable
Disks(files) ==
    IF files = <<"photo.png">>
    THEN {[p \in Paths |-> IF p = files[1] THEN fs ELSE DefaultFile] : fs \in FileStates}
    ELSE {[p \in Paths |-> DefaultFile]}

\* the snapshots that expose exactly the formats of present
Snapshot(fmt, conv, files, disk) ==
    [fmt |-> fmt, convertible |-> conv, files |-> files, disk |-> disk]

\* the bitmap formats the codec may or may not decode: those that can be read
Decodable(fmt) == {f \in {"DIBV5", "DIB"} : fmt[f].readable}

(***************************************************************************)
(* The registry, the observer loop and the Driver.                         *)
(***************************************************************************)
StreamIds == 1..MaxStreams

\* the streams of the specifications that follow the observer loop
LoopIds == 1..LoopStreams

\* a channel nobody uses
NoChannel == [q |-> <<>>, rx |-> FALSE, cap |-> 0]

\* the observer as Driver::new leaves it: initialized, about to test stop
InitLoopAt(start) ==
    /\ pc = start
    /\ stop = FALSE
    /\ driver = "alive"
    /\ monitor = [pending |-> 0, ok |-> TRUE]
    /\ senders = {}
    /\ chan = [id \in StreamIds |-> NoChannel]
    /\ lock = "free"
    /\ remaining = {}
    /\ mac = [bodies |-> <<>>]
    /\ log = [detected |-> FALSE, sends |-> 0, opened |-> TRUE, after_stop |-> 0]

InitLoop == InitLoopAt("top")

\* a channel that puts the newest message first
try_send_front(ch, msg) ==
    IF ch.rx /\ Len(ch.q) < ch.cap THEN [ch EXCEPT !.q = <<msg>> \o @] ELSE ch

\* Sender::try_send: the message is queued unless the channel is full or its
\* receiver is gone
try_send(ch, msg) ==
    IF ch.rx /\ Len(ch.q) < ch.cap THEN [ch EXCEPT !.q = Append(@, msg)] ELSE ch

\* BodySenders::register(id, tx), tx the sender of a new channel
RegisterSized(id, buffer_capacity) ==
    /\ id \notin senders
    /\ lock = "free"
    /\ senders' = senders \cup {id}
    /\ chan' = [chan EXCEPT ![id] = [q |-> <<>>, rx |-> TRUE, cap |-> buffer_capacity]]
    /\ UNCHANGED <<cfg, clip, result, pc, stop, driver, monitor, lock, remaining, mac, log>>

\* a stream of the observer loop registers with the buffer of Capacity
Register(id) == RegisterSized(id, Capacity)

\* an unregister that takes the entry for granted: remove(id).unwrap()
\* panics under the lock when id is not registered and poisons the mutex
UnregisterUnwrap(id) ==
    /\ lock = "free"
    /\ senders' = senders \ {id}
    /\ lock' = IF id \in senders THEN lock ELSE "poisoned"
    /\ UNCHANGED <<cfg, clip, result, pc, stop, driver, monitor, chan, remaining, mac, log>>

\* BodySenders::unregister(id): a no-op when id is not registered
Unregister(id) ==
    /\ lock = "free"
    /\ senders' = senders \ {id}
    /\ UNCHANGED <<cfg, clip, result, pc, stop, driver, monitor, chan, lock, remaining, mac, log>>

\* the consumer of stream id takes the next result
Recv(id) ==
    /\ chan[id].rx
    /\ chan[id].q # <<>>
    /\ chan' = [chan EXCEPT ![id].q = Tail(@)]
    /\ UNCHANGED <<cfg, clip, result, pc, stop, driver, monitor, senders, lock, remaining, mac, log>>

\* the consumer of stream id drops its receiver
DropReceiver(id) ==
    /\ chan[id].rx
    /\ chan' = [chan EXCEPT ![id] = NoChannel]
    /\ UNCHANGED <<cfg, clip, result, pc, stop, driver, monitor, senders, lock, remaining, mac, log>>

\* the observer inside send_all, by the place that called it
Sending(at) ==
    CASE at = "send" -> "sending"
      [] at = "send_fatal" -> "sending_fatal"
      [] at = "mac_send" -> "mac_sending"
      [] OTHER -> "caller_sending"

\* a loop that goes on after MonitorFailed: the break is missing
AfterSendAllNoBreak(at) ==
    CASE at = "sending" -> "top"
      [] at = "sending_fatal" -> "top"
      [] at = "mac_sending" -> "mac_next"
      [] OTHER -> "caller"

\* a loop that ends on every error it has sent
AfterSendAllBreakOnErr(at) ==
    CASE at = "sending" -> IF result.ok THEN "top" ELSE "exited"
      [] at = "sending_fatal" -> "exited"
      [] at = "mac_sending" -> "mac_next"
      [] OTHER -> "caller"

\* where the caller goes on when send_all returns: the Windows loop tests
\* stop again, breaks after MonitorFailed; the macOS loop takes the next body
AfterSendAll(at) ==
    CASE at = "sending" -> "top"
      [] at = "sending_fatal" -> "exited"
      [] at = "mac_sending" -> "mac_next"
      [] OTHER -> "caller"

\* BodySenders::send_all, first step: the lock is taken
SendAllLock ==
    /\ pc \in {"send", "send_fatal", "mac_send", "caller_send"}
    /\ lock = "free"
    /\ lock' = "observer"
    /\ remaining' = senders
    /\ pc' = Sending(pc)
    /\ log' = [log EXCEPT !.sends = IF @ < 2 THEN @ + 1 ELSE @,
                          !.after_stop = IF stop /\ @ < 2 THEN @ + 1 ELSE @]
    /\ UNCHANGED <<cfg, clip, result, stop, driver, monitor, senders, chan, mac>>

\* a loop that breaks at the first send that fails
SendAllOneBreak(id) ==
    /\ pc \in {"sending", "sending_fatal", "mac_sending", "caller_sending"}
    /\ id \in remaining
    /\ chan' = [chan EXCEPT ![id] = try_send(@, result)]
    /\ remaining' = IF try_send(chan[id], result) = chan[id] THEN {} ELSE remaining \ {id}
    /\ UNCHANGED <<cfg, clip, result, pc, stop, driver, monitor, senders, lock, mac, log>>

\* a loop that forgets the subscriber of a send that fails
SendAllOnePrune(id) ==
    /\ pc \in {"sending", "sending_fatal", "mac_sending", "caller_sending"}
    /\ id \in remaining
    /\ chan' = [chan EXCEPT ![id] = try_send(@, result)]
    /\ remaining' = remaining \ {id}
    /\ senders' = IF try_send(chan[id], result) = chan[id] THEN senders \ {id} ELSE senders
    /\ UNCHANGED <<cfg, clip, result, pc, stop, driver, monitor, lock, mac, log>>

\* one turn of the loop over senders.values_mut(), in the map's order
SendAllOne(id) ==
    /\ pc \in {"sending", "sending_fatal", "mac_sending", "caller_sending"}
    /\ id \in remaining
    /\ chan' = [chan EXCEPT ![id] = try_send(@, result)]
    /\ remaining' = remaining \ {id}
    /\ UNCHANGED <<cfg, clip, result, pc, stop, driver, monitor, senders, lock, mac, log>>

\* a send_all whose guard outlives the call
SendAllKeepLock ==
    /\ pc \in {"sending", "sending_fatal", "mac_sending", "caller_sending"}
    /\ remaining = {}
    /\ pc' = AfterSendAll(pc)
    /\ UNCHANGED <<cfg, clip, result, stop, driver, monitor, senders, chan, lock, remaining, mac, log>>

\* send_all returns and the guard is dropped; after MonitorFailed the loop breaks
SendAllUnlock ==
    /\ pc \in {"sending", "sending_fatal", "mac_sending", "caller_sending"}
    /\ remaining = {}
    /\ lock' = "free"
    /\ pc' = AfterSendAll(pc)
    /\ UNCHANGED <<cfg, clip, result, stop, driver, monitor, senders, chan, remaining, mac, log>>

\* a loop that never tests the stop flag
LoopTopForever ==
    /\ pc = "top"
    /\ pc' = "poll"
    /\ log' = [log EXCEPT !.detected = FALSE, !.sends = 0]
    /\ UNCHANGED <<cfg, clip, result, stop, driver, monitor, senders, chan, lock, remaining, mac>>

\* while !self.stop.load(Ordering::Relaxed)
LoopTop ==
    /\ pc = "top"
    /\ pc' = IF stop THEN "exited" ELSE "poll"
    /\ log' = [log EXCEPT !.detected = FALSE, !.sends = 0]
    /\ UNCHANGED <<cfg, clip, result, stop, driver, monitor, senders, chan, lock, remaining, mac>>

\* monitor.try_recv() gives Ok(true): a change was detected
PollChanged ==
    /\ pc = "poll"
    /\ monitor.ok
    /\ monitor.pending > 0
    /\ monitor' = [monitor EXCEPT !.pending = @ - 1]
    /\ log' = [log EXCEPT !.detected = TRUE]
    /\ pc' = "classify"
    /\ UNCHANGED <<cfg, clip, result, stop, driver, senders, chan, lock, remaining, mac>>

\* monitor.try_recv() gives Ok(false): the thread sleeps for the interval
PollIdle ==
    /\ pc = "poll"
    /\ monitor.ok
    /\ monitor.pending = 0
    /\ pc' = "top"
    /\ UNCHANGED <<cfg, clip, result, stop, driver, monitor, senders, chan, lock, remaining, mac, log>>

\* monitor.try_recv() gives Err: MonitorFailed is broadcast
PollFailed ==
    /\ pc = "poll"
    /\ ~monitor.ok
    /\ result' = Err("MonitorFailed")
    /\ pc' = "send_fatal"
    /\ UNCHANGED <<cfg, clip, stop, driver, monitor, senders, chan, lock, remaining, mac, log>>

\* a classification step that gives the iteration up when the flag is set
GetContentCancellable ==
    /\ pc = "classify"
    /\ \E opened \in BOOLEAN :
          /\ result' = IF stop THEN result ELSE get_clipboard_content(cfg, clip, opened)
          /\ log' = [log EXCEPT !.opened = opened]
    /\ pc' = IF stop THEN "exited" ELSE "send"
    /\ UNCHANGED <<cfg, clip, stop, driver, monitor, senders, chan, lock, remaining, mac>>

\* self.get_clipboard_content(), handed to send_all as Ok or as Err
GetContent ==
    /\ pc = "classify"
    /\ \E opened \in BOOLEAN :
          /\ result' = get_clipboard_content(cfg, clip, opened)
          /\ log' = [log EXCEPT !.opened = opened]
    /\ pc' = "send"
    /\ UNCHANGED <<cfg, clip, stop, driver, monitor, senders, chan, lock, remaining, mac>>

\* Drop for Driver: self.stop.store(true)
DropStore ==
    /\ driver = "alive"
    /\ stop' = TRUE
    /\ driver' = "joining"
    /\ UNCHANGED <<cfg, clip, result, pc, monitor, senders, chan, lock, remaining, mac, log>>

\* a drop that does not wait for the thread
DropDetach ==
    /\ driver = "joining"
    /\ driver' = "dropped"
    /\ UNCHANGED <<cfg, clip, result, pc, stop, monitor, senders, chan, lock, remaining, mac, log>>

\* Drop for Driver: handle.join() returns once the thread has exited
DropJoin ==
    /\ driver = "joining"
    /\ pc = "exited"
    /\ driver' = "dropped"
    /\ UNCHANGED <<cfg, clip, result, pc, stop, monitor, senders, chan, lock, remaining, mac, log>>

\* the snapshots the clipboard takes while the observer runs
TextOnly ==
    Snapshot([f \in Formats |-> IF f = "TEXT" THEN [size |-> 1, readable |-> TRUE] ELSE Absent],
             {}, <<>>, [p \in Paths |-> DefaultFile])

Empty ==
    Snapshot([f \in Formats |-> Absent], {}, <<>>, [p \in Paths |-> DefaultFile])

LoopSnapshots == {TextOnly, Empty}

\* another process changes the clipboard; the monitor is notified
ClipboardChange ==
    /\ monitor.pending < MaxPending
    /\ \E c \in LoopSnapshots : clip' = c
    /\ monitor' = [monitor EXCEPT !.pending = @ + 1]
    /\ UNCHANGED <<cfg, result, pc, stop, driver, senders, chan, lock, remaining, mac, log>>

\* the notification primitive breaks
MonitorBreaks ==
    /\ monitor.ok
    /\ monitor' = [monitor EXCEPT !.ok = FALSE]
    /\ UNCHANGED <<cfg, clip, result, pc, stop, driver, senders, chan, lock, remaining, mac, log>>

Init ==
    /\ cfg = WinObserverNew(RegisteredNames, custom_list, None, None)
    /\ clip = Empty
    /\ result = <<>>
    /\ InitLoop

Next ==
    \/ LoopTop
    \/ PollChanged
    \/ PollIdle
    \/ PollFailed
    \/ GetContent
    \/ SendAllLock
    \/ \E id \in LoopIds : SendAllOne(id)
    \/ SendAllUnlock
    \/ DropStore
    \/ DropJoin
    \/ ClipboardChange
    \/ MonitorBreaks
    \/ \E id \in LoopIds : Register(id)
    \/ \E id \in LoopIds : Unregister(id)
    \/ \E id \in LoopIds : Recv(id)
    \/ \E id \in LoopIds : DropReceiver(id)

Spec == Init /\ [][Next]_vars

\* a step of the observer thread
ObserverStep ==
    \/ LoopTop
    \/ PollChanged
    \/ PollIdle
    \/ PollFailed
    \/ GetContent
    \/ SendAllLock
    \/ \E id \in LoopIds : SendAllOne(id)
    \/ SendAllUnlock

\* the observer, the Driver and the registry, left to themselves by the
\* consumers: no stream takes a result or drops its receiver
NextTeardown ==
    \/ ObserverStep
    \/ DropStore
    \/ DropJoin
    \/ ClipboardChange
    \/ MonitorBreaks
    \/ \E id \in LoopIds : Register(id)
    \/ \E id \in LoopIds : Unregister(id)

\* the observer thread is scheduled as long as it has a step to take, the
\* poll, the classification and the sends each returning, and join returns
\* once the thread has exited
SpecFair == Init /\ [][NextTeardown]_vars /\ WF_vars(ObserverStep) /\ WF_vars(DropJoin)

(***************************************************************************)
(* The macOS observer.  OSXSys is not part of the sources at hand:         *)
(* get_change_count is the pasteboard's change counter, and get_bodies is  *)
(* modelled from the classifier's contract: one Body, or a failure, which  *)
(* leaves nothing to iterate over.                                         *)
(***************************************************************************)
get_bodies(o, c, opened) ==
    IF get_clipboard_content(o, c, opened).ok
    THEN <<get_clipboard_content(o, c, opened).body>>
    ELSE <<>>

\* while !self.stop.load(Ordering::Relaxed)
MacLoopTop ==
    /\ pc = "mac_top"
    /\ pc' = IF stop THEN "exited" ELSE "mac_poll"
    /\ log' = [log EXCEPT !.detected = FALSE, !.sends = 0]
    /\ UNCHANGED <<cfg, clip, result, stop, driver, monitor, senders, chan, lock, remaining, mac>>

\* sleep, get_change_count: the count is the last one, continue
MacPollSame ==
    /\ pc = "mac_poll"
    /\ monitor.pending = 0
    /\ pc' = "mac_top"
    /\ UNCHANGED <<cfg, clip, result, stop, driver, monitor, senders, chan, lock, remaining, mac, log>>

\* sleep, get_change_count: the count has moved, a change is detected
MacPollChanged ==
    /\ pc = "mac_poll"
    /\ monitor.pending > 0
    /\ monitor' = [monitor EXCEPT !.pending = 0]
    /\ log' = [log EXCEPT !.detected = TRUE]
    /\ pc' = "mac_bodies"
    /\ UNCHANGED <<cfg, clip, result, stop, driver, senders, chan, lock, remaining, mac>>

\* self.sys.get_bodies().into_iter()
MacGetBodies ==
    /\ pc = "mac_bodies"
    /\ \E opened \in BOOLEAN : mac' = [mac EXCEPT !.bodies = get_bodies(cfg, clip, opened)]
    /\ pc' = "mac_next"
    /\ UNCHANGED <<cfg, clip, result, stop, driver, monitor, senders, chan, lock, remaining, log>>

\* for_each: the next body goes to send_all as Ok, or the iterator has ended
MacNext ==
    /\ pc = "mac_next"
    /\ IF mac.bodies = <<>>
       THEN /\ pc' = "mac_top"
            /\ UNCHANGED <<result, mac>>
       ELSE /\ result' = Ok(Head(mac.bodies))
            /\ mac' = [mac EXCEPT !.bodies = Tail(@)]
            /\ pc' = "mac_send"
    /\ UNCHANGED <<cfg, clip, stop, driver, monitor, senders, chan, lock, remaining, log>>

InitMac ==
    /\ cfg = WinObserverNew(RegisteredNames, custom_list, None, None)
    /\ clip = Empty
    /\ result = <<>>
    /\ InitLoopAt("mac_top")

NextMac ==
    \/ MacLoopTop
    \/ MacPollSame
    \/ MacPollChanged
    \/ MacGetBodies
    \/ MacNext
    \/ SendAllLock
    \/ \E id \in LoopIds : SendAllOne(id)
    \/ SendAllUnlock
    \/ DropStore
    \/ DropJoin
    \/ ClipboardChange
    \/ \E id \in LoopIds : Register(id)
    \/ \E id \in LoopIds : Unregister(id)
    \/ \E id \in LoopIds : Recv(id)
    \/ \E id \in LoopIds : DropReceiver(id)

SpecMac == InitMac /\ [][NextMac]_vars

(***************************************************************************)
(* Driver::new.  The thread is spawned; on Windows it sets up the monitor  *)
(* and hands the outcome over before the caller returns, on macOS the      *)
(* caller returns at once.                                                 *)
(***************************************************************************)
\* the places of the macOS thread before its end
MacPlaces ==
    {"mac_spawned", "mac_top", "mac_poll", "mac_bodies", "mac_next", "mac_send",
     "mac_sending"}

\* clipboard_win::Monitor::new() gives Ok(monitor)
WinSetupOk ==
    /\ pc = "spawned"
    /\ pc' = "init_send_ok"
    /\ UNCHANGED <<cfg, clip, result, stop, driver, monitor, senders, chan, lock, remaining, mac, log>>

\* clipboard_win::Monitor::new() gives Err(e)
WinSetupErr ==
    /\ pc = "spawned"
    /\ pc' = "init_send_err"
    /\ UNCHANGED <<cfg, clip, result, stop, driver, monitor, senders, chan, lock, remaining, mac, log>>

\* init_tx.send(Ok(())) meets init_rx.recv(): Driver::new returns Ok(Driver)
HandoffOk ==
    /\ pc = "init_send_ok"
    /\ driver = "constructing"
    /\ driver' = "alive"
    /\ pc' = "observer_new"
    /\ UNCHANGED <<cfg, clip, result, stop, monitor, senders, chan, lock, remaining, mac, log>>

\* init_tx.send(Err(e)) meets init_rx.recv(): Driver::new returns
\* InitializationError and the thread ends
HandoffErr ==
    /\ pc = "init_send_err"
    /\ driver = "constructing"
    /\ driver' = "InitializationError"
    /\ pc' = "exited"
    /\ UNCHANGED <<cfg, clip, result, stop, monitor, senders, chan, lock, remaining, mac, log>>

\* WinObserver::new, then observer.observe(body_senders)
WinObserverStart ==
    /\ pc = "observer_new"
    /\ pc' = "top"
    /\ UNCHANGED <<cfg, clip, result, stop, driver, monitor, senders, chan, lock, remaining, mac, log>>

\* macOS: Driver::new returns Ok(Driver) right after thread::spawn
MacNewReturns ==
    /\ driver = "constructing"
    /\ pc \in MacPlaces
    /\ driver' = "alive"
    /\ UNCHANGED <<cfg, clip, result, pc, stop, monitor, senders, chan, lock, remaining, mac, log>>

\* macOS: OSXObserver::new, then observe takes the change count as last_count
MacObserverStart ==
    /\ pc = "mac_spawned"
    /\ monitor' = [monitor EXCEPT !.pending = 0]
    /\ pc' = "mac_top"
    /\ UNCHANGED <<cfg, clip, result, stop, driver, senders, chan, lock, remaining, mac, log>>

\* Driver::new has spawned the thread, on either platform
InitNew ==
    /\ cfg = WinObserverNew(RegisteredNames, custom_list, None, None)
    /\ clip = Empty
    /\ result = <<>>
    /\ pc \in {"spawned", "mac_spawned"}
    /\ stop = FALSE
    /\ driver = "constructing"
    /\ monitor = [pending |-> 0, ok |-> TRUE]
    /\ senders = {}
    /\ chan = [id \in StreamIds |-> NoChannel]
    /\ lock = "free"
    /\ remaining = {}
    /\ mac = [bodies |-> <<>>]
    /\ log = [detected |-> FALSE, sends |-> 0, opened |-> TRUE, after_stop |-> 0]

NextNew ==
    \/ WinSetupOk
    \/ WinSetupErr
    \/ HandoffOk
    \/ HandoffErr
    \/ WinObserverStart
    \/ MacNewReturns
    \/ MacObserverStart
    \/ Next
    \/ NextMac

SpecNew == InitNew /\ [][NextNew]_vars

(***************************************************************************)
(* The registry on its own: send_all is called with any result, between    *)
(* and during the calls of register and unregister and the consumers'      *)
(* receives.                                                               *)
(***************************************************************************)
\* the results handed to send_all
Results ==
    {get_clipboard_content(WinObserverNew(RegisteredNames, custom_list, None, None),
                           c, TRUE) : c \in LoopSnapshots}

\* body_senders.send_all(result) is called
CallSendAll ==
    /\ pc = "caller"
    /\ \E r \in Results : result' = r
    /\ pc' = "caller_send"
    /\ UNCHANGED <<cfg, clip, stop, driver, monitor, senders, chan, lock, remaining, mac, log>>

InitRegistry ==
    /\ cfg = WinObserverNew(RegisteredNames, custom_list, None, None)
    /\ clip = Empty
    /\ result = <<>>
    /\ InitLoopAt("caller")

NextRegistry ==
    \/ CallSendAll
    \/ SendAllLock
    \/ \E id \in StreamIds : SendAllOne(id)
    \/ SendAllUnlock
    \/ \E id \in StreamIds : \E cap \in 1..MaxCapacity : RegisterSized(id, cap)
    \/ \E id \in StreamIds : Unregister(id)
    \/ \E id \in StreamIds : Recv(id)
    \/ \E id \in StreamIds : DropReceiver(id)

SpecRegistry == InitRegistry /\ [][NextRegistry]_vars

(***************************************************************************)
(* The classifier on its own: one configuration, one snapshot, one call.   *)
(***************************************************************************)
InitClassify ==
    /\ \E registered \in RegisteredChoices :
       \E iteration \in IterationOrders(custom_formats_map(registered)) :
       \E ceilings \in CeilingChoices :
          /\ cfg = WinObserverNew(registered, iteration, ceilings[1], ceilings[2])
          /\ log = [detected |-> FALSE, sends |-> 0, opened |-> TRUE,
                    after_stop |-> 0, ceilings |-> ceilings]
    /\ \E present \in {S \in SUBSET Formats : Cardinality(S) <= MaxPresent} :
       \E fmt \in FormatStates(present) :
       \E files \in IF fmt["FILES"].readable THEN FileLists ELSE {<<>>} :
       \E disk \in Disks(files) :
       \E conv \in SUBSET Decodable(fmt) :
          clip = Snapshot(fmt, conv, files, disk)
    /\ result = <<>>
    /\ pc = "top"
    /\ stop = FALSE
    /\ driver = "alive"
    /\ monitor = [pending |-> 0, ok |-> TRUE]
    /\ senders = {}
    /\ chan = [id \in StreamIds |-> NoChannel]
    /\ lock = "free"
    /\ remaining = {}
    /\ mac = [bodies |-> <<>>]

\* one call of get_clipboard_content; the clipboard opens or does not
Classify ==
    /\ result = <<>>
    /\ \E opened \in BOOLEAN :
          /\ result' = get_clipboard_content(cfg, clip, opened)
          /\ log' = [log EXCEPT !.opened = opened]
    /\ UNCHANGED <<cfg, clip, pc, stop, driver, monitor, senders, chan, lock, remaining, mac>>

NextClassify == Classify

SpecClassify == InitClassify /\ [][NextClassify]_vars

(***************************************************************************)
(* The vocabulary of the claims about the classifier.  A size is within a  *)
(* ceiling when it is at most the ceiling, and exceeds it otherwise; an    *)
(* unset ceiling bounds nothing.                                           *)
(***************************************************************************)
WithinCeiling(size, ceiling) == \A max \in ceiling : size <= max

Exceeds(size, ceiling) == \E max \in ceiling : size > max

\* the classifier was called and got the clipboard
Classified == result # <<>> /\ log.opened

IsRegistered(name) == \E i \in 1..Len(cfg.custom_formats) : cfg.custom_formats[i] = name

\* the format is on the clipboard and a read of it succeeds
Readable(f) == clip.fmt[f].size > 0 /\ clip.fmt[f].readable

\* the ceiling that applies to a format: the image ceiling for the image
\* formats, max_bytes for the others
CeilingOf(f) == IF f \in ImageFormatIds THEN cfg.max_image_bytes ELSE cfg.max_bytes

\* present, within its ceiling, readable
Available(f) == Readable(f) /\ WithinCeiling(clip.fmt[f].size, CeilingOf(f))

AvailableCustoms == {n \in CustomNames : IsRegistered(n) /\ Available(n)}

\* an image can be had: the PNG format, or a bitmap the codec converts
AvailableImage ==
    \/ cfg.png_format /\ Available("PNG")
    \/ \E f \in {"DIBV5", "DIB"} : Available(f) /\ f \in clip.convertible

\* the variants the highest available tier yields; none when nothing is there
ExpectedKinds ==
    IF AvailableCustoms # {} THEN {"Custom"}
    ELSE IF AvailableImage THEN {"Image"}
    ELSE IF Available("FILES") THEN {"FileList", "Image"}
    ELSE IF cfg.html_format /\ Readable("HTML") THEN {"Html"}
    ELSE IF cfg.rtf_format /\ Readable("RTF") THEN {"RichText"}
    ELSE IF Readable("TEXT") THEN {"PlainText"}
    ELSE {}

\* no format of the snapshot has a size equal to its ceiling, and the file of
\* a single-entry list has no length equal to max_bytes
OffBoundary ==
    /\ \A f \in Formats : clip.fmt[f].size \notin CeilingOf(f)
    /\ \A p \in Paths : clip.disk[p].len \notin cfg.max_bytes

\* C1: the result is the variant of the highest-priority tier that is
\* available (custom > image > file list > HTML > rich text > plain text),
\* and UnknownDataType when no tier is
C1_StrictPriority ==
    Classified =>
        IF ExpectedKinds = {}
        THEN result = Err("UnknownDataType")
        ELSE result.ok /\ result.body.kind \in ExpectedKinds

\* C1 away from the boundary: the same, for snapshots in which no size
\* equals its ceiling
C1_StrictPriorityOffBoundary == OffBoundary => C1_StrictPriority

\* C2: a detected change leads to exactly one call of send_all: never more
\* than one, and one by the time the loop is back at its top
C2_OneBroadcastPerChange ==
    log.detected =>
        /\ log.sends <= 1
        /\ pc \in {"top", "mac_top"} => log.sends = 1

\* the registered custom formats that are present, readable and below the
\* ceiling, so that the size check is not in question
CustomsBelowCeiling ==
    {n \in AvailableCustoms : clip.fmt[n].size \notin cfg.max_bytes}

\* the name of custom_list that comes first among names
FirstRegistered(names) ==
    custom_list[CHOOSE i \in 1..Len(custom_list) :
                    /\ custom_list[i] \in names
                    /\ \A j \in 1..Len(custom_list) : custom_list[j] \in names => i <= j]

\* C3: with two or more registered custom formats on the clipboard within
\* the ceiling, the one registered first is returned
C3_FirstRegisteredWins ==
    (Classified /\ Cardinality(CustomsBelowCeiling) >= 2) =>
        /\ result.ok
        /\ result.body.kind = "Custom"
        /\ result.body.name = FirstRegistered(CustomsBelowCeiling)

\* the formats a size ceiling applies to
CeilingFormats == CustomNames \cup ImageFormatIds \cup {"FILES"}

\* the formats of the snapshot whose advertised size exceeds their ceiling
Oversize == {f \in CeilingFormats : clip.fmt[f].size > 0
                                      /\ Exceeds(clip.fmt[f].size, CeilingOf(f))}

\* the snapshot without format f
WithoutFormat(c, f) == [c EXCEPT !.fmt[f] = Absent]

\* the result holds the payload of format f
Carries(r, f) ==
    /\ r.ok
    /\ CASE r.body.kind = "Custom" -> r.body.data.src = f
         [] r.body.kind = "Image" -> r.body.bytes.src = f \/ (f = "FILES" /\ r.body.path # None)
         [] r.body.kind = "FileList" -> f = "FILES"
         [] OTHER -> r.body.text.src = f

\* C4: a format whose advertised size exceeds its ceiling is treated as
\* absent: the result is that of the snapshot without it, is no ReadError
\* and does not hold its payload
C4_OversizeIsAbsent ==
    Classified =>
        \A f \in Oversize :
            /\ result = get_clipboard_content(cfg, WithoutFormat(clip, f), TRUE)
            /\ result # Err("ReadError")
            /\ ~Carries(result, f)

\* an oversize readable format was passed over for a lower tier
C4_Witness ==
    /\ Classified
    /\ \E f \in Oversize : clip.fmt[f].readable /\ f \in CustomNames /\ IsRegistered(f)
    /\ result.ok
    /\ result.body.kind \in {"Image", "PlainText"}

\* C5: no Body is emitted from a clipboard format whose advertised size
\* exceeds the ceiling, the text formats of the fallback included
C5_NoBodyOverCeiling ==
    Classified =>
        \A f \in Formats :
            (Carries(result, f) /\ clip.fmt[f].size > 0) =>
                ~Exceeds(clip.fmt[f].size, CeilingOf(f))

\* the classifier returned no custom format, extracted no image and got a
\* file list
FileListTier ==
    /\ Classified
    /\ custom_branch(cfg, clip) = None
    /\ extract_image_bytes(cfg, clip) = None
    /\ extract_files_list(clip, cfg.max_bytes) # None

\* the list has one entry, an image by its extension, within max_bytes on
\* disk and readable
SingleImageFile ==
    /\ Len(clip.files) = 1
    /\ Extension(clip.files[1]) \in IMAGE_FORMATS
    /\ WithinCeiling(clip.disk[clip.files[1]].len, cfg.max_bytes)
    /\ clip.disk[clip.files[1]].state = "ok"

\* C6: in the file list tier the result is Image, read from disk and with
\* the entry as path, exactly for a single image file within max_bytes that
\* can be read; otherwise it is FileList with the entries as they are
C6_FileListOrSingleImage ==
    FileListTier =>
        /\ result.ok
        /\ IF SingleImageFile
           THEN /\ result.body.kind = "Image"
                /\ result.body.bytes.src = clip.files[1]
                /\ result.body.path = Some(clip.files[1])
           ELSE result.body = BodyFileList(clip.files)

\* C6 away from the boundary
C6_FileListOrSingleImageOffBoundary == OffBoundary => C6_FileListOrSingleImage

\* the classifier returned no custom format and extracted an image payload
ImageTier ==
    /\ Classified
    /\ custom_branch(cfg, clip) = None
    /\ extract_image_bytes(cfg, clip) # None

\* C7: with an image payload extracted the result is Image, and its path is
\* the entry of a file list of exactly one entry, None without such a list;
\* a file list over the ceiling is an absent one
C7_ImagePath ==
    ImageTier =>
        /\ result.ok
        /\ result.body.kind = "Image"
        /\ result.body.bytes.src \in ImageFormatIds
        /\ result.body.path = IF Available("FILES") /\ Len(clip.files) = 1
                              THEN Some(clip.files[1])
                              ELSE None

\* C7 away from the boundary
C7_ImagePathOffBoundary == OffBoundary => C7_ImagePath

\* C8: the bytes of every Image are PNG
C8_ImageIsPng ==
    (Classified /\ result.ok /\ result.body.kind = "Image") =>
        result.body.bytes.enc = "png"

\* the channel has room for one more message and its receiver is there
SpareCapacity(ch) == ch.rx /\ Len(ch.q) < ch.cap

\* C9: within one call of send_all every subscriber registered at the call
\* is tried once: a channel with spare capacity gets a copy equal to result,
\* a full or closed one is left as it is, no other channel is touched by the
\* turn, and the call can always go on to its return
C9_SendAllDelivers ==
    /\ [](lock = "observer" =>
            ENABLED (SendAllUnlock \/ \E id \in StreamIds : SendAllOne(id)))
    /\ [][/\ (lock = "free" /\ lock' = "observer") => remaining' = senders
          /\ (lock = "observer" /\ lock' = "free") => remaining = {}
          /\ (lock = "observer" /\ remaining' # remaining) =>
                \E id \in remaining :
                    /\ remaining' = remaining \ {id}
                    /\ chan'[id] = IF SpareCapacity(chan[id])
                                   THEN [chan[id] EXCEPT !.q = Append(@, result)]
                                   ELSE chan[id]
                    /\ \A other \in StreamIds \ {id} : chan'[other] = chan[other]]_vars

\* send_all is through its loop: one subscriber holds the result, the other,
\* full or closed, does not
C9_Witness ==
    /\ lock = "observer"
    /\ remaining = {}
    /\ Cardinality(senders) = 2
    /\ \E id \in senders :
        /\ chan[id].q = <<result>>
        /\ \E other \in senders \ {id} :
            /\ ~SpareCapacity(chan[other])
            /\ \A k \in 1..Len(chan[other].q) : chan[other].q[k] # result

\* C10: while send_all holds the lock the set of registered ids does not
\* change, whatever the sends do; an id leaves the set only with the lock
\* free, one id at a time, which is unregister(id)
C10_OnlyUnregisterRemoves ==
    [][/\ (lock = "observer" \/ lock' = "observer") => senders' = senders
       /\ ~(senders \subseteq senders') =>
            /\ lock = "free" /\ lock' = "free"
            /\ \E id \in senders : senders' = senders \ {id}
            /\ chan' = chan]_vars

\* send_all is through its loop and a subscriber it could not send to is
\* still registered
C10_Witness ==
    /\ lock = "observer"
    /\ remaining = {}
    /\ \E id \in senders : ~chan[id].rx /\ chan[id].q = <<>>

\* C11: unregister(id) removes the entry of id and no other, touches no
\* channel queue, changes nothing at all when id is not registered (so a
\* second call after a first changes nothing), and can be called whenever
\* the lock is free, whatever calls came before
C11_UnregisterIdempotent ==
    /\ [](lock = "free" => \A id \in StreamIds : ENABLED Unregister(id))
    /\ [][\A id \in StreamIds :
            Unregister(id) =>
                /\ id \notin senders'
                /\ \A other \in StreamIds \ {id} : other \in senders' <=> other \in senders
                /\ chan' = chan
                /\ lock' = "free"
                /\ id \notin senders => UNCHANGED vars]_vars

\* a stream was registered and unregistered while another stays registered
C11_Witness ==
    /\ \E id \in StreamIds :
        /\ id \notin senders
        /\ chan[id].rx
        /\ \E other \in senders : other # id
    /\ lock = "free"

\* no step appends to the queue of a channel
NoDelivery == \A id \in StreamIds : Len(chan'[id].q) <= Len(chan[id].q)

\* C12: once drop has returned the observer thread has exited, send_all is
\* neither in progress nor called again, and no queue grows
C12_NoBroadcastAfterDrop ==
    /\ [](driver = "dropped" =>
            /\ pc = "exited"
            /\ lock # "observer"
            /\ remaining = {})
    /\ [][driver = "dropped" =>
            /\ pc' = "exited"
            /\ lock' # "observer"
            /\ log'.sends = log.sends
            /\ NoDelivery]_vars

\* the Driver is gone while a change waits for the observer and a subscriber
\* has room for it
C12_Witness ==
    /\ driver = "dropped"
    /\ monitor.pending > 0
    /\ \E id \in senders : chan[id].rx /\ chan[id].q = <<>>

\* x is an element of the queue q
InQueue(x, q) == \E k \in 1..Len(q) : q[k] = x

\* C14: MonitorFailed is handed to send_all once and the loop then stops
\* for good; the loop ends in no other way than this or the stop flag at the
\* top of an iteration
C14_MonitorFailedStops ==
    /\ [](pc \in {"send_fatal", "sending_fatal"} =>
            /\ result = Err("MonitorFailed")
            /\ log.sends <= 1)
    /\ [][/\ pc = "sending_fatal" => (pc' \in {"sending_fatal", "exited"} /\ log.sends = 1)
          /\ (pc # "exited" /\ pc' = "exited") =>
                \/ pc = "top" /\ stop
                \/ pc = "sending_fatal"
          /\ pc = "exited" =>
                /\ pc' = "exited"
                /\ lock' # "observer"
                /\ NoDelivery]_vars

\* the loop has ended on its own and a subscriber holds MonitorFailed
C14_Witness ==
    /\ pc = "exited"
    /\ ~stop
    /\ \E id \in senders : InQueue(Err("MonitorFailed"), chan[id].q)

\* the errors of one classification attempt
ClassificationErrors == {Err("ReadError"), Err("UnknownDataType")}

\* C15: the result of a classification, a failure as well as a success, goes
\* to the one send_all call; after a failed one the queues that grow get
\* that error, and the loop is back at its top, not at its end
C15_ErrorsNonFatal ==
    /\ [](pc \in {"send", "sending"} =>
            (result.ok \/ result \in ClassificationErrors))
    /\ [][/\ pc = "classify" => pc' \in {"classify", "send"}
          /\ (pc = "send" /\ result \in ClassificationErrors) =>
                pc' \in {"send", "sending"}
          /\ (pc = "sending" /\ result \in ClassificationErrors) =>
                /\ pc' \in {"sending", "top"}
                /\ \A id \in StreamIds :
                      Len(chan'[id].q) > Len(chan[id].q) =>
                          chan'[id].q = Append(chan[id].q, result)]_vars

\* a change is detected after a subscriber got a classification error
C15_Witness ==
    /\ pc = "classify"
    /\ \E id \in senders : \E e \in ClassificationErrors : InQueue(e, chan[id].q)

\* the sender of stream id is gone: the channel is closed for its consumer
SenderGone(id) == id \notin senders

\* C16: once the observer has stopped every channel whose consumer still
\* listens is eventually closed
C16_StreamsEnd ==
    (pc = "exited") ~> (\A id \in StreamIds : chan[id].rx => SenderGone(id))

\* the places of the loop outside send_all: the loop test, the poll with its
\* sleep, the classification with its native calls and file reads, the end
OutsideSendAll == {"top", "poll", "classify", "send", "send_fatal", "exited"}

\* C18: the observer holds the lock only inside send_all, and outside of it
\* register and unregister can go ahead
C18_LockOnlyInSendAll ==
    /\ [](pc \in OutsideSendAll => lock = "free")
    /\ [](pc \in OutsideSendAll =>
            \A id \in LoopIds :
                /\ ENABLED Unregister(id)
                /\ id \notin senders => ENABLED Register(id))
    /\ [][lock' = "observer" => pc' \in {"sending", "sending_fatal"}]_vars

\* the observer polls, with nothing to see, after a broadcast that reached a
\* subscriber
C18_Witness ==
    /\ pc = "poll"
    /\ monitor.pending = 0
    /\ monitor.ok
    /\ lock = "free"
    /\ \E id \in senders : chan[id].q # <<>>

\* C19: once the stop flag is set the loop comes to its end, and a drop that
\* has set the flag gets through its join
C19_TeardownTerminates ==
    /\ stop ~> (pc = "exited")
    /\ (driver = "joining") ~> (driver = "dropped")

\* the drop is through and the loop ended on the stop flag, the monitor intact
C19_Witness ==
    /\ driver = "dropped"
    /\ stop
    /\ monitor.ok
    /\ result # Err("MonitorFailed")

\* f is the one format on the clipboard
OnlyFormat(f) == \A g \in Formats \ {f} : clip.fmt[g].size = 0

\* but for its size the classifier can return f: it reads, and it is
\* registered, or converts, where that is asked of it
Usable(f) ==
    /\ Readable(f)
    /\ f \in CustomNames => IsRegistered(f)
    /\ f = "PNG" => cfg.png_format
    /\ f \in {"DIBV5", "DIB"} => f \in clip.convertible

\* C20: with a ceiling max configured, a usable format of advertised size s
\* that is alone on the clipboard is returned exactly when s <= max, s = max
\* included; a single readable image file of a list is promoted exactly when
\* its on-disk size is <= max_bytes
C20_CeilingInclusive ==
    Classified =>
        /\ \A f \in CeilingFormats :
              (OnlyFormat(f) /\ Usable(f) /\ CeilingOf(f) # None) =>
                  (Carries(result, f) <=> WithinCeiling(clip.fmt[f].size, CeilingOf(f)))
        /\ (/\ FileListTier
            /\ cfg.max_bytes # None
            /\ Len(clip.files) = 1
            /\ Extension(clip.files[1]) \in IMAGE_FORMATS
            /\ clip.disk[clip.files[1]].state = "ok") =>
                (result.body.kind = "Image"
                    <=> WithinCeiling(clip.disk[clip.files[1]].len, cfg.max_bytes))

\* C20 away from the boundary
C20_CeilingInclusiveOffBoundary == OffBoundary => C20_CeilingInclusive

\* C17: a queue changes only by the result of the send_all in progress going
\* to its tail, once per send_all, by its head being taken, or by the channel
\* being replaced or given up; the result does not change within a send_all.
\* So what a subscriber takes, it takes in the order of the broadcasts
C17_OrderPreserved ==
    [][/\ (lock = "observer" /\ lock' = "observer") => result' = result
       /\ \A id \in StreamIds :
            \/ chan'[id].q = chan[id].q
            \/ /\ chan'[id].q = Append(chan[id].q, result)
               /\ lock = "observer"
               /\ id \in remaining /\ id \notin remaining'
            \/ chan[id].q # <<>> /\ chan'[id].q = Tail(chan[id].q)
            \/ chan'[id].q = <<>>]_vars

\* a subscriber holds two different results, the later broadcast behind the
\* earlier one
C17_Witness ==
    /\ lock = "free"
    /\ \E id \in senders :
        /\ Len(chan[id].q) = 2
        /\ chan[id].q[1] # chan[id].q[2]
        /\ chan[id].q[2] = result

\* Driver::new has returned Ok(Driver)
NewReturnedOk == driver \in {"alive", "joining", "dropped"}

\* the thread is past its setup and the report of it
SetupReported == pc \notin {"spawned", "init_send_ok", "init_send_err", "mac_spawned"}

\* C13: Driver::new has returned Ok only with the setup of the thread done
\* and reported, the observer initialized or about to be; it has returned
\* InitializationError only with the thread at its end, no loop run and
\* nothing broadcast
C13_NewWaitsForSetup ==
    /\ NewReturnedOk => SetupReported
    /\ driver = "InitializationError" =>
            /\ pc = "exited"
            /\ log.sends = 0
            /\ ~log.detected
            /\ \A id \in StreamIds : chan[id].q = <<>>

\* C13 on Windows, where the thread hands the outcome over
C13_NewWaitsForSetupWindows == pc \notin MacPlaces => C13_NewWaitsForSetup

\* the image ceiling in force for the ceilings given to WinObserver::new:
\* max_image_bytes when set, max_bytes otherwise, none when both are unset
ImageCeilingFor(ceilings) == IF ceilings[1] # None THEN ceilings[1] ELSE ceilings[2]

\* no registered custom format and no other image format is on the clipboard
NothingBefore(f) ==
    \A g \in (CustomNames \cup ImageFormatIds) \ {f} : clip.fmt[g].size = 0

\* C21: an image format the classifier gets to, usable but for its size, is
\* returned when its size is below the image ceiling in force, whatever
\* max_bytes is, and always when there is no such ceiling; it is passed over
\* when its size is above that ceiling
C21_ImageCeiling ==
    Classified =>
        /\ cfg.max_image_bytes = ImageCeilingFor(log.ceilings)
        /\ cfg.max_bytes = log.ceilings[2]
        /\ \A f \in ImageFormatIds :
              (NothingBefore(f) /\ Usable(f)) =>
                  /\ (\A max \in ImageCeilingFor(log.ceilings) : clip.fmt[f].size < max)
                        => Carries(result, f)
                  /\ (\E max \in ImageCeilingFor(log.ceilings) : clip.fmt[f].size > max)
                        => ~Carries(result, f)

\* an image of a size not below max_bytes is returned under a larger
\* max_image_bytes
C21_Witness ==
    /\ Classified
    /\ log.ceilings = <<Some(3), Some(2)>>
    /\ \E f \in ImageFormatIds :
        /\ clip.fmt[f].size = 2
        /\ Carries(result, f)

\* the observer is inside an iteration of its loop, past the test of the flag
InIteration == pc \in {"poll", "classify", "send", "sending", "send_fatal", "sending_fatal"}

\* C22: setting the stop flag moves the observer nowhere; with the flag set an
\* iteration in progress goes on to its end, leaving the loop only at its top
\* or by the break after MonitorFailed; at most one send_all is called after
\* the flag was set, and none once the join has returned
C22_StopReadAtTop ==
    /\ [][(~stop /\ stop') => (pc' = pc /\ result' = result /\ log' = log)]_vars
    /\ [][(stop /\ InIteration) =>
            /\ pc' \in {"poll", "classify", "send", "sending", "send_fatal",
                        "sending_fatal", "top", "exited"}
            /\ (pc' = "exited" => pc = "sending_fatal")
            /\ (pc = "classify" => pc' \in {"classify", "send"})
            /\ (pc = "send" => pc' \in {"send", "sending"})]_vars
    /\ [][(stop /\ pc = "top") => pc' \in {"top", "exited"}]_vars
    /\ [](log.after_stop <= 1)
    /\ [][driver = "dropped" => log'.after_stop = log.after_stop]_vars

\* the flag was set during an iteration, its send_all was called all the same
\* and delivered, and the join has returned
C22_Witness ==
    /\ driver = "dropped"
    /\ log.after_stop = 1
    /\ \E id \in LoopIds : Len(chan[id].q) > 0

====
